---- MODULE Spec2Model ----
(***************************************************************************)
(* ImageHide: LSB steganography engine and cryptographic payload pipeline. *)
(*                                                                         *)
(* Byte strings are sequences of 0..255, texts are sequences of Unicode    *)
(* code points, bit lists are sequences of 0..1.  A call that can raise is *)
(* modelled by a record whose err field names the exception class ("none"  *)
(* when the call returned) and whose val field is the returned value.      *)
(***************************************************************************)
EXTENDS Integers, Sequences, FiniteSets, TLC

VARIABLES
    heap,        \* the PIL Image objects alive: object id -> image value
    embedCall,   \* last call of embed_payload_into_image
    extractCall, \* last call of extract_payload_from_image
    gcm,         \* AES-GCM as an ideal AEAD: the (key, nonce, ct, tag) it produced
    buildCall,   \* last call of build_payload_from_text
    textCall,    \* last call of extract_text_from_payload
    packCall,    \* last call of pack_encrypted_payload
    unpackCall,  \* last call of unpack_encrypted_payload
    deriveCall,    \* first call of derive_key_from_password
    rederiveCall,  \* the call of derive_key_from_password with the salt the first returned
    encryptCall,   \* last call of encrypt_with_aes_gcm
    decryptCall,   \* last call of decrypt_with_aes_gcm
    capacityCall,  \* last call of get_capacity_bits
    traverseCalls, \* the traversals of _iter_channel_bytes made so far
    rotateCall,    \* last call of rotate_letters
    unrotateCall,  \* the call of rotate_letters that undoes the last one
    bitsCall,      \* last call of bytes_to_bits
    bytesCall,     \* last call of bits_to_bytes
    requiredCall,  \* last call of calculate_required_bits_for_payload
    encodeCall,    \* last run of the command line's encode_command
    files,         \* the images save_image wrote
    variantCall    \* the call of extract_payload_from_image on a second image

\* The calls of the cryptographic primitives and those of the pure helpers.
cryptoCalls == <<deriveCall, rederiveCall, encryptCall, decryptCall>>

pureCalls == <<capacityCall, traverseCalls, rotateCall, unrotateCall, bitsCall, bytesCall>>

\* The calls of the command line and of the callers that compare two runs.
otherCalls == <<requiredCall, encodeCall, files, variantCall>>

vars == <<heap, embedCall, extractCall, gcm, buildCall, textCall, packCall, unpackCall,
          cryptoCalls, pureCalls, otherCalls>>

(***************************************************************************)
(* Bounds of the model.                                                    *)
(***************************************************************************)
MaxCt == 2        \* longest ciphertext handed to pack_encrypted_payload
MaxText == 2      \* longest message text, in characters
MaxPayload == 2   \* longest raw payload handed to embed_payload_into_image
MaxLsb == 3       \* largest lsb_count
MaxSide == 6      \* largest width of a small image (heights are 1..MaxSide too)
MaxPlain == 1     \* longest message inside a plaintext handed to encrypt_with_aes_gcm
MaxRotate == 2    \* longest text handed to rotate_letters on its own
MaxShift == 27    \* largest shift of a single turn or so (both signs)
MaxBytes == 3     \* longest byte string handed to bytes_to_bits
MaxLength == 48   \* largest payload length handed to calculate_required_bits_for_payload

(***************************************************************************)
(* Results of calls.                                                       *)
(***************************************************************************)
NotCalled == [called |-> FALSE]

Ok(v) == [err |-> "none", val |-> v]

Raise(kind) == [err |-> kind]

Returned(r) == r.err = "none"

\* A byte string of length n whose content is fixed by a seed: every position differs from its neighbours.
BytesOf(n, seed) == [i \in 1..n |-> (seed + 29 * i) % 256]

(***************************************************************************)
(* core/encoding.py                                                        *)
(***************************************************************************)
\* str.encode("utf-8") of one code point (no surrogates in the texts of the model).
Utf8OfChar(c) ==
    IF c < 128 THEN <<c>>
    ELSE IF c < 2048 THEN <<192 + (c \div 64), 128 + (c % 64)>>
    ELSE IF c < 65536
    THEN <<224 + (c \div 4096), 128 + ((c \div 64) % 64), 128 + (c % 64)>>
    ELSE <<240 + (c \div 262144), 128 + ((c \div 4096) % 64),
           128 + ((c \div 64) % 64), 128 + (c % 64)>>

RECURSIVE Utf8From(_, _)
Utf8From(text, i) ==
    IF i > Len(text) THEN <<>> ELSE Utf8OfChar(text[i]) \o Utf8From(text, i + 1)

text_to_bytes(text) == Utf8From(text, 1)

IsCont(data, i) == i <= Len(data) /\ data[i] >= 128 /\ data[i] <= 191

\* bytes.decode("utf-8"), strict: the code points, or UnicodeDecodeError at the
\* first malformed sequence (overlong forms, surrogates and values above U+10FFFF included).
RECURSIVE Utf8Decode(_, _, _)
Utf8Decode(data, i, acc) ==
    IF i > Len(data) THEN Ok(acc)
    ELSE LET b == data[i] IN
         IF b < 128 THEN Utf8Decode(data, i + 1, Append(acc, b))
         ELSE IF b >= 194 /\ b <= 223 /\ IsCont(data, i + 1)
         THEN Utf8Decode(data, i + 2, Append(acc, (b - 192) * 64 + (data[i + 1] - 128)))
         ELSE IF b >= 224 /\ b <= 239 /\ IsCont(data, i + 1) /\ IsCont(data, i + 2)
                 /\ (b = 224 => data[i + 1] >= 160) /\ (b = 237 => data[i + 1] <= 159)
         THEN Utf8Decode(data, i + 3,
                  Append(acc, (b - 224) * 4096 + (data[i + 1] - 128) * 64 + (data[i + 2] - 128)))
         ELSE IF b >= 240 /\ b <= 244 /\ IsCont(data, i + 1) /\ IsCont(data, i + 2)
                 /\ IsCont(data, i + 3)
                 /\ (b = 240 => data[i + 1] >= 144) /\ (b = 244 => data[i + 1] <= 143)
         THEN Utf8Decode(data, i + 4,
                  Append(acc, (b - 240) * 262144 + (data[i + 1] - 128) * 4096
                              + (data[i + 2] - 128) * 64 + (data[i + 3] - 128)))
         ELSE Raise("UnicodeDecodeError")

bytes_to_text(data) == Utf8Decode(data, 1, <<>>)

\* (byte >> i) & 1
BitAt(byte, i) == (byte \div (2 ^ i)) % 2

\* The bits of each byte from the least significant one up.
bytes_to_bits_lsb_first(data) ==
    [k \in 1..(8 * Len(data)) |-> BitAt(data[((k - 1) \div 8) + 1], (k - 1) % 8)]

\* for byte in data: for i in range(7, -1, -1): bits.append((byte >> i) & 1)
bytes_to_bits(data) ==
    [k \in 1..(8 * Len(data)) |-> BitAt(data[((k - 1) \div 8) + 1], 7 - ((k - 1) % 8))]

\* byte_value = (byte_value << 1) | bit over the bits k+1..k+n of the list,
\* starting from byte_value.
RECURSIVE ShiftIn(_, _, _, _)
ShiftIn(bits, k, n, byte_value) ==
    IF n = 0 THEN byte_value
    ELSE ShiftIn(bits, k + 1, n - 1, byte_value * 2 + bits[k + 1])

\* A packing that fills an incomplete last group with zero bits and keeps it.
bits_to_bytes_padded(bits) ==
    LET padded == bits \o [i \in 1..((8 - (Len(bits) % 8)) % 8) |-> 0]
    IN  [n \in 1..(Len(padded) \div 8) |-> ShiftIn(padded, 8 * (n - 1), 8, 0)]

\* A byte is appended each time bit_count reaches 8, that is once per complete
\* group of 8 bits; the bits after the last complete group are never appended.
bits_to_bytes(bits) ==
    [n \in 1..(Len(bits) \div 8) |-> ShiftIn(bits, 8 * (n - 1), 8, 0)]

\* ord('a'), ord('z'), ord('A'), ord('Z')
ORD_a == 97
ORD_z == 122
ORD_A == 65
ORD_Z == 90

\* A remainder that takes the sign of the dividend, left uncorrected.
RotateCharSignedRemainder(c, shift) ==
    LET rem(a) == IF a >= 0 THEN a % 26 ELSE 0 - ((0 - a) % 26) IN
    IF ORD_a <= c /\ c <= ORD_z THEN rem(c - ORD_a + shift) + ORD_a
    ELSE IF ORD_A <= c /\ c <= ORD_Z THEN rem(c - ORD_A + shift) + ORD_A
    ELSE c

\* A lowercase test without its upper bound: everything from 'a' up is rotated.
RotateCharNoUpperBound(c, shift) ==
    IF ORD_a <= c THEN ((c - ORD_a + shift) % 26) + ORD_a
    ELSE IF ORD_A <= c /\ c <= ORD_Z THEN ((c - ORD_A + shift) % 26) + ORD_A
    ELSE c

\* (ord(char) - base + shift) % 26 is never negative in Python, so the
\* correction below it never runs.
RotateChar(c, shift) ==
    IF ORD_a <= c /\ c <= ORD_z THEN ((c - ORD_a + shift) % 26) + ORD_a
    ELSE IF ORD_A <= c /\ c <= ORD_Z THEN ((c - ORD_A + shift) % 26) + ORD_A
    ELSE c

rotate_letters(text, shift) == [i \in 1..Len(text) |-> RotateChar(text[i], shift)]

(***************************************************************************)
(* imagehide/core/crypto.py: packing.                                      *)
(***************************************************************************)
SALT_LENGTH == 16
NONCE_LENGTH == 12
TAG_LENGTH == 16

\* Python slice s[a:b] for 0 <= a, with b clipped to len(s); a and b are 0-based.
Slice(s, a, b) ==
    LET hi == IF b < Len(s) THEN b ELSE Len(s)
    IN  IF a >= hi THEN <<>> ELSE [i \in 1..(hi - a) |-> s[a + i]]

\* The components concatenated in another order: the tag before the nonce.
pack_tag_before_nonce(salt, nonce, tag, ciphertext) ==
    IF Len(salt) # SALT_LENGTH THEN Raise("ValueError")
    ELSE IF Len(nonce) # NONCE_LENGTH THEN Raise("ValueError")
    ELSE IF Len(tag) # TAG_LENGTH THEN Raise("ValueError")
    ELSE Ok(salt \o tag \o nonce \o ciphertext)

pack_encrypted_payload(salt, nonce, tag, ciphertext) ==
    IF Len(salt) # SALT_LENGTH THEN Raise("ValueError")
    ELSE IF Len(nonce) # NONCE_LENGTH THEN Raise("ValueError")
    ELSE IF Len(tag) # TAG_LENGTH THEN Raise("ValueError")
    ELSE Ok(salt \o nonce \o tag \o ciphertext)

\* A slip in the fixed offsets: the nonce is cut one byte short.
unpack_nonce_short(payload) ==
    IF Len(payload) < SALT_LENGTH + NONCE_LENGTH + TAG_LENGTH
    THEN Raise("ValueError")
    ELSE Ok([salt |-> Slice(payload, 0, SALT_LENGTH),
             nonce |-> Slice(payload, SALT_LENGTH, SALT_LENGTH + NONCE_LENGTH - 1),
             tag |-> Slice(payload, SALT_LENGTH + NONCE_LENGTH,
                           SALT_LENGTH + NONCE_LENGTH + TAG_LENGTH),
             ciphertext |-> Slice(payload, SALT_LENGTH + NONCE_LENGTH + TAG_LENGTH,
                                  Len(payload))])

unpack_encrypted_payload(payload) ==
    IF Len(payload) < SALT_LENGTH + NONCE_LENGTH + TAG_LENGTH
    THEN Raise("ValueError")
    ELSE Ok([salt |-> Slice(payload, 0, SALT_LENGTH),
             nonce |-> Slice(payload, SALT_LENGTH, SALT_LENGTH + NONCE_LENGTH),
             tag |-> Slice(payload, SALT_LENGTH + NONCE_LENGTH,
                           SALT_LENGTH + NONCE_LENGTH + TAG_LENGTH),
             ciphertext |-> Slice(payload, SALT_LENGTH + NONCE_LENGTH + TAG_LENGTH,
                                  Len(payload))])

(***************************************************************************)
(* imagehide/core/crypto.py: key derivation and AES-GCM.                   *)
(*                                                                         *)
(* PBKDF2-HMAC-SHA256 is an ideal key derivation: the key is the term      *)
(* (password bytes, salt, iterations, length), so equal inputs give equal  *)
(* keys and different inputs different keys.  AES-GCM is an ideal AEAD:    *)
(* gcm holds every (key, nonce, ciphertext, tag) an encryption produced,   *)
(* and a tag verifies exactly for those.                                   *)
(***************************************************************************)
KDF_ITERATIONS == 100000
KDF_LENGTH == 32

None == [some |-> FALSE]

Some(v) == [some |-> TRUE, v |-> v]

\* dict.get(k, default); None and the empty dict are both the empty function.
Get(d, k, default) == IF k \in DOMAIN d THEN d[k] ELSE default

PBKDF2HMAC(pw, salt, iterations, length) ==
    [pw |-> pw, salt |-> salt, iterations |-> iterations, length |-> length]

\* A derivation that draws a fresh salt even when the caller supplies one.
derive_fresh_salt(password, salt, kdf_params, urandom) ==
    LET iterations == IF DOMAIN kdf_params # {} THEN Get(kdf_params, "iterations", KDF_ITERATIONS)
                      ELSE KDF_ITERATIONS
        length == IF DOMAIN kdf_params # {} THEN Get(kdf_params, "length", KDF_LENGTH)
                  ELSE KDF_LENGTH
    IN  [key |-> PBKDF2HMAC(text_to_bytes(password), urandom, iterations, length),
         salt |-> urandom]

\* A derivation that takes no overrides: the key is always the default one.
derive_default_params(password, salt, kdf_params, urandom) ==
    LET salt_used == IF salt.some THEN salt.v ELSE urandom
    IN  [key |-> PBKDF2HMAC(text_to_bytes(password), salt_used, KDF_ITERATIONS, KDF_LENGTH),
         salt |-> salt_used]

\* urandom stands for the bytes os.urandom(SALT_LENGTH) returns in this call.
derive_key_from_password(password, salt, kdf_params, urandom) ==
    LET iterations == IF DOMAIN kdf_params # {} THEN Get(kdf_params, "iterations", KDF_ITERATIONS)
                      ELSE KDF_ITERATIONS
        length == IF DOMAIN kdf_params # {} THEN Get(kdf_params, "length", KDF_LENGTH)
                  ELSE KDF_LENGTH
        salt_used == IF salt.some THEN salt.v ELSE urandom
    IN  [key |-> PBKDF2HMAC(text_to_bytes(password), salt_used, iterations, length),
         salt |-> salt_used]

RECURSIVE SumSeq(_, _)
SumSeq(s, i) == IF i > Len(s) THEN 0 ELSE s[i] + SumSeq(s, i + 1)

\* The key stream of the cipher, a byte per position, fixed by key and nonce.
KeyStream(key, nonce, i) ==
    (SumSeq(key.pw, 1) + SumSeq(key.salt, 1) + key.iterations + key.length
        + nonce[((i - 1) % Len(nonce)) + 1] + 7 * i) % 256

\* The 16-byte tag the encryptor computes.
GcmTag(key, nonce, ciphertext) ==
    [j \in 1..TAG_LENGTH |->
        (SumSeq(key.pw, 1) + key.length + SumSeq(nonce, 1) + SumSeq(ciphertext, 1) + 5 * j) % 256]

\* algorithms.AES(key) accepts keys of 128, 192 and 256 bits only.
AesKeyOk(key) == key.length \in {16, 24, 32}

\* urandom stands for the bytes os.urandom(NONCE_LENGTH) returns in this call.
\* The result carries the AEAD's table after the call.
encrypt_with_aes_gcm(table, plaintext, key, urandom) ==
    IF ~AesKeyOk(key) THEN [res |-> Raise("ValueError"), table |-> table]
    ELSE LET nonce == urandom
             ciphertext == [i \in 1..Len(plaintext) |->
                               (plaintext[i] + KeyStream(key, nonce, i)) % 256]
             tag == GcmTag(key, nonce, ciphertext)
         IN  [res |-> Ok([ciphertext |-> ciphertext, nonce |-> nonce, tag |-> tag]),
              table |-> table \cup {[key |-> key, nonce |-> nonce,
                                     ciphertext |-> ciphertext, tag |-> tag]}]

\* A decryptor that does not verify the tag.
decrypt_unverified(table, ciphertext, key, nonce, tag) ==
    IF ~AesKeyOk(key) THEN Raise("ValueError")
    ELSE Ok([i \in 1..Len(ciphertext) |-> (ciphertext[i] - KeyStream(key, nonce, i)) % 256])

\* A decryptor whose tag does not cover the ciphertext.
decrypt_tag_without_ciphertext(table, ciphertext, key, nonce, tag) ==
    IF ~AesKeyOk(key) THEN Raise("ValueError")
    ELSE IF \A e \in table : ~(e.key = key /\ e.nonce = nonce /\ e.tag = tag)
    THEN Raise("DecryptionError")
    ELSE Ok([i \in 1..Len(ciphertext) |-> (ciphertext[i] - KeyStream(key, nonce, i)) % 256])

decrypt_with_aes_gcm(table, ciphertext, key, nonce, tag) ==
    IF ~AesKeyOk(key) THEN Raise("ValueError")
    ELSE IF [key |-> key, nonce |-> nonce, ciphertext |-> ciphertext, tag |-> tag] \notin table
    THEN Raise("DecryptionError")   \* except InvalidTag
    ELSE Ok([i \in 1..Len(ciphertext) |-> (ciphertext[i] - KeyStream(key, nonce, i)) % 256])

(***************************************************************************)
(* core/steganography.py: the text pipeline.                               *)
(***************************************************************************)
\* "<start_msg>" and "<end_msg>"
START_TAG == <<60, 115, 116, 97, 114, 116, 95, 109, 115, 103, 62>>
END_TAG == <<60, 101, 110, 100, 95, 109, 115, 103, 62>>

startswith(s, prefix) == Len(s) >= Len(prefix) /\ Slice(s, 0, Len(prefix)) = prefix

endswith(s, suffix) ==
    Len(s) >= Len(suffix) /\ Slice(s, Len(s) - Len(suffix), Len(s)) = suffix

\* rsalt and rnonce stand for what os.urandom returns in the two calls made.
\* The result carries the AEAD's table after the call.
build_payload_from_text(table, text, password, kdf_params, rsalt, rnonce) ==
    LET tagged_text == START_TAG \o text \o END_TAG
        shift == Len(password)
        rotated_text == rotate_letters(tagged_text, shift)
        utf8_bytes == text_to_bytes(rotated_text)
        ks == derive_key_from_password(password, None, kdf_params, rsalt)
        enc == encrypt_with_aes_gcm(table, utf8_bytes, ks.key, rnonce)
    IN  IF ~Returned(enc.res) THEN [res |-> enc.res, table |-> enc.table]
        ELSE [res |-> pack_encrypted_payload(ks.salt, enc.res.val.nonce, enc.res.val.tag,
                                             enc.res.val.ciphertext),
              table |-> enc.table]

\* A recovery that looks for the start tag only.
extract_text_start_tag_only(table, payload, password) ==
    LET un == unpack_encrypted_payload(payload) IN
    IF ~Returned(un) THEN un
    ELSE LET ks == derive_key_from_password(password, Some(un.val.salt), <<>>, <<>>)
             dec == decrypt_with_aes_gcm(table, un.val.ciphertext, ks.key, un.val.nonce,
                                         un.val.tag)
         IN  IF ~Returned(dec) THEN dec
             ELSE LET decoded == bytes_to_text(dec.val) IN
                  IF ~Returned(decoded) THEN decoded
                  ELSE LET shift == 0 - Len(password)
                           derotated_text == rotate_letters(decoded.val, shift)
                       IN  IF startswith(derotated_text, START_TAG)
                           THEN Ok(Slice(derotated_text, Len(START_TAG),
                                         Len(derotated_text) - Len(END_TAG)))
                           ELSE Raise("FormatError")

extract_text_from_payload(table, payload, password) ==
    LET un == unpack_encrypted_payload(payload) IN
    IF ~Returned(un) THEN un
    ELSE LET ks == derive_key_from_password(password, Some(un.val.salt), <<>>, <<>>)
             dec == decrypt_with_aes_gcm(table, un.val.ciphertext, ks.key, un.val.nonce,
                                         un.val.tag)
         IN  IF ~Returned(dec) THEN dec
             ELSE LET decoded == bytes_to_text(dec.val) IN
                  IF ~Returned(decoded) THEN decoded
                  ELSE LET shift == 0 - Len(password)
                           derotated_text == rotate_letters(decoded.val, shift)
                       IN  IF startswith(derotated_text, START_TAG)
                              /\ endswith(derotated_text, END_TAG)
                           THEN Ok(Slice(derotated_text, Len(START_TAG),
                                         Len(derotated_text) - Len(END_TAG)))
                           ELSE Raise("FormatError")

(***************************************************************************)
(* core/steganography.py: images, embedding and extraction.                *)
(*                                                                         *)
(* An image is [mode, width, height, px] with px[<<x, y>>] the pixel, a    *)
(* tuple of channel values; the pixel of a single-band image, which PIL    *)
(* hands out as an int, is the 1-tuple of its value.                       *)
(***************************************************************************)
Bands(mode) ==
    CASE mode = "L" -> 1 [] mode = "LA" -> 2 [] mode = "RGB" -> 3 [] mode = "RGBA" -> 4
      [] mode = "P" -> 1 [] mode = "CMYK" -> 4

\* isinstance(pixel, int)
IsInt(pixel) == Len(pixel) = 1

\* struct.pack('>I', n)
struct_pack_I(n) ==
    <<(n \div 16777216) % 256, (n \div 65536) % 256, (n \div 256) % 256, n % 256>>

\* struct.unpack('>I', b)[0]
struct_unpack_I(b) == b[1] * 16777216 + b[2] * 65536 + b[3] * 256 + b[4]

\* A requirement counted in channel bytes: fewer of them with more bits in each.
required_channel_bytes(payload_length_bytes, lsb_count) ==
    (payload_length_bytes * 8 + lsb_count - 1) \div lsb_count

calculate_required_bits_for_payload(payload_length_bytes, lsb_count) ==
    payload_length_bytes * 8

\* What one pixel contributes to the channel stream.
PixelChannels(pixel, mode, include_alpha) ==
    IF IsInt(pixel) THEN pixel
    ELSE IF include_alpha \/ (mode # "RGBA" /\ mode # "LA") THEN pixel
    ELSE SubSeq(pixel, 1, Len(pixel) - 1)     \* i < len(pixel) - 1

\* for y in range(height): for x in range(width): ... over the pixels lo..hi-1
\* of the row-major order (pixel k is x = k % width, y = k // width); the range
\* is walked in halves, left before right.
RECURSIVE IterRange(_, _, _, _)
IterRange(image, include_alpha, lo, hi) ==
    IF lo >= hi THEN <<>>
    ELSE IF hi = lo + 1
    THEN PixelChannels(image.px[<<lo % image.width, lo \div image.width>>],
                       image.mode, include_alpha)
    ELSE LET mid == (lo + hi) \div 2
         IN  IterRange(image, include_alpha, lo, mid) \o IterRange(image, include_alpha, mid, hi)

_iter_channel_bytes(image, include_alpha) ==
    IterRange(image, include_alpha, 0, image.width * image.height)

\* pixels[x, y] = value on an image of this mode: PIL takes one value per band
\* (and, on a four-band image, also a 3-tuple).
PutPixelOk(mode, pixel) ==
    Len(pixel) = Bands(mode) \/ (Bands(mode) = 4 /\ Len(pixel) = 3)

\* One pass of the pixel loop of _channels_to_image, for pixel k of the
\* row-major order: st.pos is the next unread position of modified_channels,
\* st.px the pixels written so far, st.err the exception raised, if any.
RebuildPixel(image, modified_channels, include_alpha, k, st) ==
    LET x == k % image.width
        y == k \div image.width
        left == Len(modified_channels) - st.pos + 1
    IN  IF image.mode \in {"L", "1"}
        THEN IF left < 1 THEN [st EXCEPT !.err = "StopIteration"]
             ELSE [st EXCEPT !.pos = @ + 1, !.px[<<x, y>>] = <<modified_channels[st.pos]>>]
        ELSE LET num_channels == IF image.mode = "RGBA" THEN 4 ELSE 3 IN
             IF include_alpha \/ num_channels = 3
             THEN IF left < num_channels THEN [st EXCEPT !.err = "StopIteration"]
                  ELSE LET pixel == SubSeq(modified_channels, st.pos, st.pos + num_channels - 1)
                       IN  IF ~PutPixelOk(image.mode, pixel) THEN [st EXCEPT !.err = "TypeError"]
                           ELSE [st EXCEPT !.pos = @ + num_channels, !.px[<<x, y>>] = pixel]
             ELSE IF left < num_channels - 1 THEN [st EXCEPT !.err = "StopIteration"]
             ELSE [st EXCEPT !.err = "NameError"]     \* original_pixel is not defined

\* The pixel loop over the pixels lo..hi-1, walked in halves, left before
\* right; nothing runs after an exception.
RECURSIVE RebuildRange(_, _, _, _, _, _)
RebuildRange(image, modified_channels, include_alpha, lo, hi, st) ==
    IF lo >= hi \/ st.err # "none" THEN st
    ELSE IF hi = lo + 1 THEN RebuildPixel(image, modified_channels, include_alpha, lo, st)
    ELSE LET mid == (lo + hi) \div 2
         IN  RebuildRange(image, modified_channels, include_alpha, mid, hi,
                 RebuildRange(image, modified_channels, include_alpha, lo, mid, st))

RebuildLoop(image, modified_channels, include_alpha, px) ==
    LET st == RebuildRange(image, modified_channels, include_alpha, 0,
                           image.width * image.height, [err |-> "none", pos |-> 1, px |-> px])
    IN  IF st.err = "none" THEN Ok(st.px) ELSE Raise(st.err)

\* Image.new(mode, size): every band 0.
NewImage(mode, width, height) ==
    [mode |-> mode, width |-> width, height |-> height,
     px |-> [xy \in (0..(width - 1)) \X (0..(height - 1)) |-> [b \in 1..Bands(mode) |-> 0]]]

\* A rebuild that writes the pixels into the caller's image and returns it.
channels_to_image_in_place(objs, image, modified_channels, include_alpha) ==
    LET src == objs[image]
        built == RebuildLoop(src, modified_channels, include_alpha, src.px)
    IN  IF ~Returned(built) THEN [res |-> built, heap |-> objs]
        ELSE [res |-> Ok(image), heap |-> [objs EXCEPT ![image].px = built.val]]

\* objs are the image objects, image the id of the source: the result carries
\* the id of new_image and the objects after the call.
_channels_to_image(objs, image, modified_channels, include_alpha) ==
    LET src == objs[image]
        new_image == NewImage(src.mode, src.width, src.height)
        built == RebuildLoop(src, modified_channels, include_alpha, new_image.px)
    IN  IF ~Returned(built) THEN [res |-> built, heap |-> objs]
        ELSE [res |-> Ok(Len(objs) + 1),
              heap |-> Append(objs, [new_image EXCEPT !.px = built.val])]

\* The group written the other way round: its first bit in the highest of the low bits.
RECURSIVE PayloadValueFirstBitHigh(_, _, _, _)
PayloadValueFirstBitHigh(payload_bits, bit_index, lsb_count, i) ==
    IF i >= lsb_count \/ bit_index + i >= Len(payload_bits) THEN 0
    ELSE payload_bits[bit_index + i + 1] * (2 ^ (lsb_count - 1 - i))
            + PayloadValueFirstBitHigh(payload_bits, bit_index, lsb_count, i + 1)

\* for i in range(lsb_count): if bit_index < len(payload_bits): payload_value |= bit << i
RECURSIVE PayloadValue(_, _, _, _)
PayloadValue(payload_bits, bit_index, lsb_count, i) ==
    IF i >= lsb_count \/ bit_index + i >= Len(payload_bits) THEN 0
    ELSE payload_bits[bit_index + i + 1] * (2 ^ i)
            + PayloadValue(payload_bits, bit_index, lsb_count, i + 1)

\* One pass of the channel loop of embed_payload_into_image, for the channel
\* byte at position j: st.bit_index is 0-based as in the code, st.out the
\* modified_channels so far.
EmbedByte(channels, payload_bits, lsb_count, j, st) ==
    IF st.bit_index < Len(payload_bits)
    THEN LET cleaned_byte == channels[j] - (channels[j] % (2 ^ lsb_count))    \* & clear_mask
             payload_value == PayloadValue(payload_bits, st.bit_index, lsb_count, 0)
             used == IF st.bit_index + lsb_count <= Len(payload_bits) THEN lsb_count
                     ELSE Len(payload_bits) - st.bit_index
         IN  [bit_index |-> st.bit_index + used,
              out |-> Append(st.out, cleaned_byte + payload_value)]
    ELSE [st EXCEPT !.out = Append(@, channels[j])]

\* The channel loop over the positions lo..hi-1, walked in halves, left before
\* right; once the bits are exhausted the loop only copies channel bytes.
RECURSIVE EmbedRange(_, _, _, _, _, _)
EmbedRange(channels, payload_bits, lsb_count, lo, hi, st) ==
    IF lo >= hi THEN st
    ELSE IF st.bit_index >= Len(payload_bits)
    THEN [st EXCEPT !.out = @ \o SubSeq(channels, lo, hi - 1)]
    ELSE IF hi = lo + 1 THEN EmbedByte(channels, payload_bits, lsb_count, lo, st)
    ELSE LET mid == (lo + hi) \div 2
         IN  EmbedRange(channels, payload_bits, lsb_count, mid, hi,
                 EmbedRange(channels, payload_bits, lsb_count, lo, mid, st))

EmbedLoop(channels, payload_bits, lsb_count) ==
    EmbedRange(channels, payload_bits, lsb_count, 1, Len(channels) + 1,
               [bit_index |-> 0, out |-> <<>>]).out

embed_payload_into_image(objs, image, payload, include_alpha, lsb_count) ==
    LET payload_with_header == struct_pack_I(Len(payload)) \o payload
        required_bits == calculate_required_bits_for_payload(Len(payload_with_header), lsb_count)
        available_bits == objs[image].width * objs[image].height
                            * (IF include_alpha THEN 3 ELSE 4) * lsb_count
    IN  IF required_bits > available_bits
        THEN [res |-> [err |-> "CapacityError", required_bits |-> required_bits,
                       available_bits |-> available_bits],
              heap |-> objs]
        ELSE LET payload_bits == bytes_to_bits(payload_with_header)
                 modified_channels ==
                     EmbedLoop(_iter_channel_bytes(objs[image], include_alpha),
                               payload_bits, lsb_count)
             IN  _channels_to_image(objs, image, modified_channels, include_alpha)

\* An off-by-one in the length check: a payload that ends with the stream is refused.
extract_refuses_exact_fit(image, include_alpha, lsb_count) ==
    LET channels == _iter_channel_bytes(image, include_alpha)
        extracted_bits == [k \in 1..(Len(channels) * lsb_count) |->
                              BitAt(channels[((k - 1) \div lsb_count) + 1], (k - 1) % lsb_count)]
        payload_with_header == bits_to_bytes(extracted_bits)
    IN  IF Len(payload_with_header) < 4 THEN Raise("FormatError")
        ELSE LET payload_length == struct_unpack_I(Slice(payload_with_header, 0, 4)) IN
             IF Len(payload_with_header) <= 4 + payload_length THEN Raise("FormatError")
             ELSE Ok(Slice(payload_with_header, 4, 4 + payload_length))

\* An extraction that takes every recovered byte after the header, whatever
\* the header declares.
extract_returns_all_recovered(image, include_alpha, lsb_count) ==
    LET channels == _iter_channel_bytes(image, include_alpha)
        extracted_bits == [k \in 1..(Len(channels) * lsb_count) |->
                              BitAt(channels[((k - 1) \div lsb_count) + 1], (k - 1) % lsb_count)]
        payload_with_header == bits_to_bytes(extracted_bits)
    IN  IF Len(payload_with_header) < 4 THEN Raise("FormatError")
        ELSE Ok(Slice(payload_with_header, 4, Len(payload_with_header)))

extract_payload_from_image(image, include_alpha, lsb_count) ==
    LET channels == _iter_channel_bytes(image, include_alpha)
        extracted_bits == [k \in 1..(Len(channels) * lsb_count) |->
                              BitAt(channels[((k - 1) \div lsb_count) + 1], (k - 1) % lsb_count)]
        payload_with_header == bits_to_bytes(extracted_bits)
    IN  IF Len(payload_with_header) < 4 THEN Raise("FormatError")
        ELSE LET payload_length == struct_unpack_I(Slice(payload_with_header, 0, 4)) IN
             IF Len(payload_with_header) < 4 + payload_length THEN Raise("FormatError")
             ELSE Ok(Slice(payload_with_header, 4, 4 + payload_length))

(***************************************************************************)
(* imagehide/core/image_io.py: capacity accounting.                        *)
(***************************************************************************)
\* len(image.getbands()) is the number of bands of the mode.
get_num_channels(image, include_alpha) ==
    LET mode == image.mode IN
    IF mode \in {"L", "1"} THEN 1
    ELSE IF mode = "RGB" THEN 3
    ELSE IF mode = "RGBA" THEN (IF include_alpha THEN 4 ELSE 3)
    ELSE IF mode = "CMYK" THEN 4
    ELSE IF mode = "YCbCr" THEN 3
    ELSE IF mode = "LAB" THEN 3
    ELSE IF mode = "HSV" THEN 3
    ELSE IF include_alpha THEN Bands(mode) ELSE Bands(mode) - 1

get_capacity_bits(image, include_alpha, lsb_count) ==
    LET num_channels == get_num_channels(image, include_alpha)
    IN  image.width * image.height * num_channels * lsb_count

(***************************************************************************)
(* Callers of the rotation and of the bit codec.                           *)
(***************************************************************************)
\* 'a', 'z', 'A', 'Z', '0', '!', 'é'
RotateAlphabet == {97, 122, 65, 90, 48, 33, 233}

RECURSIVE RotateTextsOfLen(_)
RotateTextsOfLen(n) ==
    IF n = 0 THEN {<<>>}
    ELSE {Append(t, c) : t \in RotateTextsOfLen(n - 1), c \in RotateAlphabet}

RotateTexts == UNION {RotateTextsOfLen(n) : n \in 0..MaxRotate}

\* Shifts around zero and around one turn, and two of many turns.
Shifts == ((0 - MaxShift)..MaxShift) \cup {0 - 1000, 1000}

Rotate(text, shift) ==
    /\ ~rotateCall.called
    /\ rotateCall' = [called |-> TRUE, text |-> text, shift |-> shift,
                      res |-> rotate_letters(text, shift)]
    /\ UNCHANGED <<otherCalls, heap, embedCall, extractCall, gcm, buildCall, textCall, packCall, unpackCall,
                   cryptoCalls, capacityCall, traverseCalls, unrotateCall, bitsCall, bytesCall>>

\* rotate_letters(rotated, -shift) on what the last rotation returned.
Unrotate ==
    /\ rotateCall.called
    /\ ~unrotateCall.called
    /\ unrotateCall' = [called |-> TRUE, text |-> rotateCall.res, shift |-> 0 - rotateCall.shift,
                        res |-> rotate_letters(rotateCall.res, 0 - rotateCall.shift)]
    /\ UNCHANGED <<otherCalls, heap, embedCall, extractCall, gcm, buildCall, textCall, packCall, unpackCall,
                   cryptoCalls, capacityCall, traverseCalls, rotateCall, bitsCall, bytesCall>>

\* 0x00, 0x01, 0x80, 0xAA, 0xFF
ByteValues == {0, 1, 128, 170, 255}

RECURSIVE ByteStringsOfLen(_)
ByteStringsOfLen(n) ==
    IF n = 0 THEN {<<>>}
    ELSE {Append(b, v) : b \in ByteStringsOfLen(n - 1), v \in ByteValues}

ByteStrings == UNION {ByteStringsOfLen(n) : n \in 0..MaxBytes}

ToBits(data) ==
    /\ ~bitsCall.called
    /\ bitsCall' = [called |-> TRUE, data |-> data, res |-> bytes_to_bits(data)]
    /\ UNCHANGED <<otherCalls, heap, embedCall, extractCall, gcm, buildCall, textCall, packCall, unpackCall,
                   cryptoCalls, capacityCall, traverseCalls, rotateCall, unrotateCall, bytesCall>>

\* bits_to_bytes(bits) on the bits bytes_to_bits returned.
FromBits ==
    /\ bitsCall.called
    /\ ~bytesCall.called
    /\ bytesCall' = [called |-> TRUE, bits |-> bitsCall.res, res |-> bits_to_bytes(bitsCall.res)]
    /\ UNCHANGED <<otherCalls, heap, embedCall, extractCall, gcm, buildCall, textCall, packCall, unpackCall,
                   cryptoCalls, capacityCall, traverseCalls, rotateCall, unrotateCall, bitsCall>>

\* The bits of a byte string followed by up to 7 more bits.
BitTails == {SubSeq(t, 1, n) : t \in {<<1, 0, 1, 1, 0, 0, 1>>, <<0, 0, 0, 0, 0, 0, 0>>}, n \in 0..7}

BitLists == {bytes_to_bits(b) \o t : b \in ByteStrings, t \in BitTails}

\* bits_to_bytes(bits) on bits that are not a whole number of bytes, as
\* extract_payload_from_image collects them from the channel stream.
FromBitsRaw(bits) ==
    /\ ~bitsCall.called
    /\ ~bytesCall.called
    /\ bytesCall' = [called |-> TRUE, bits |-> bits, res |-> bits_to_bytes(bits)]
    /\ UNCHANGED <<heap, embedCall, extractCall, gcm, buildCall, textCall, packCall, unpackCall,
                   cryptoCalls, capacityCall, traverseCalls, rotateCall, unrotateCall, bitsCall,
                   otherCalls>>

RequiredBits(payload_length_bytes, lsb_count) ==
    /\ ~requiredCall.called
    /\ requiredCall' = [called |-> TRUE, payload_length_bytes |-> payload_length_bytes,
                        lsb_count |-> lsb_count,
                        res |-> calculate_required_bits_for_payload(payload_length_bytes,
                                                                    lsb_count)]
    /\ UNCHANGED <<heap, embedCall, extractCall, gcm, buildCall, textCall, packCall, unpackCall,
                   cryptoCalls, pureCalls, encodeCall, files, variantCall>>

(***************************************************************************)
(* Callers of pack/unpack.                                                 *)
(***************************************************************************)
Seeds == {3, 200}

\* Lengths around the required ones, so that the validation of pack is exercised.
PackArgs ==
    {[salt |-> BytesOf(ls, s1), nonce |-> BytesOf(ln, s2),
      tag |-> BytesOf(lt, s1 + 7), ciphertext |-> BytesOf(lc, s2 + 11)] :
        ls \in {SALT_LENGTH - 1, SALT_LENGTH},
        ln \in {NONCE_LENGTH, NONCE_LENGTH + 1},
        lt \in {TAG_LENGTH - 1, TAG_LENGTH},
        lc \in 0..MaxCt, s1 \in Seeds, s2 \in Seeds}

RawPayloads ==
    {BytesOf(n, s) : n \in 0..(SALT_LENGTH + NONCE_LENGTH + TAG_LENGTH + MaxCt), s \in Seeds}

Pack(a) ==
    /\ ~packCall.called
    /\ ~unpackCall.called
    /\ packCall' = [called |-> TRUE, args |-> a,
                    res |-> pack_encrypted_payload(a.salt, a.nonce, a.tag, a.ciphertext)]
    /\ UNCHANGED <<otherCalls, cryptoCalls, pureCalls,
                   heap, embedCall, extractCall, gcm, buildCall, textCall, unpackCall>>

\* unpack(pack(...)): the payload is the one the last pack returned.
UnpackPacked ==
    /\ packCall.called
    /\ Returned(packCall.res)
    /\ ~unpackCall.called
    /\ unpackCall' = [called |-> TRUE, src |-> "packed", payload |-> packCall.res.val,
                      res |-> unpack_encrypted_payload(packCall.res.val)]
    /\ UNCHANGED <<otherCalls, cryptoCalls, pureCalls,
                   heap, embedCall, extractCall, gcm, buildCall, textCall, packCall>>

\* unpack of bytes that come from anywhere (an image that holds no message).
UnpackRaw(p) ==
    /\ ~packCall.called
    /\ ~unpackCall.called
    /\ unpackCall' = [called |-> TRUE, src |-> "raw", payload |-> p,
                      res |-> unpack_encrypted_payload(p)]
    /\ UNCHANGED <<otherCalls, cryptoCalls, pureCalls,
                   heap, embedCall, extractCall, gcm, buildCall, textCall, packCall>>

(***************************************************************************)
(* Callers of the text pipeline.                                           *)
(***************************************************************************)
\* 'z', 'Z', '!', 'á' (two UTF-8 bytes), '€' (three UTF-8 bytes)
Alphabet == {122, 90, 33, 225, 8364}

RECURSIVE TextsOfLen(_)
TextsOfLen(n) ==
    IF n = 0 THEN {<<>>}
    ELSE {Append(t, c) : t \in TextsOfLen(n - 1), c \in Alphabet}

Texts == UNION {TextsOfLen(n) : n \in 0..MaxText}

\* "p", "q", "ñp" and a password of 27 letters (a shift beyond one turn).
Passwords == {<<112>>, <<113>>, <<241, 112>>, [i \in 1..27 |-> 120]}

\* No overrides, the defaults spelled out, fewer iterations, a 128-bit key, a
\* key length AES refuses.
KdfParams ==
    {<<>>, [k \in {"iterations"} |-> KDF_ITERATIONS], [k \in {"iterations"} |-> 1000],
     [k \in {"length"} |-> 16], [k \in {"length"} |-> 20]}

Salts == {BytesOf(SALT_LENGTH, s) : s \in Seeds}

Nonces == {BytesOf(NONCE_LENGTH, s) : s \in Seeds}

Build(t, p, k, rsalt, rnonce) ==
    /\ ~buildCall.called
    /\ LET b == build_payload_from_text(gcm, t, p, k, rsalt, rnonce) IN
         /\ buildCall' = [called |-> TRUE, text |-> t, password |-> p, kdf_params |-> k,
                          salt |-> rsalt, nonce |-> rnonce, res |-> b.res]
         /\ gcm' = b.table
    /\ UNCHANGED <<otherCalls, cryptoCalls, pureCalls,
                   heap, embedCall, extractCall, textCall, packCall, unpackCall>>

\* extract_text_from_payload on the payload build_payload_from_text returned.
ExtractTextBuilt(p2) ==
    /\ buildCall.called
    /\ Returned(buildCall.res)
    /\ ~textCall.called
    /\ textCall' = [called |-> TRUE, src |-> "built", payload |-> buildCall.res.val,
                    password |-> p2,
                    res |-> extract_text_from_payload(gcm, buildCall.res.val, p2)]
    /\ UNCHANGED <<otherCalls, cryptoCalls, pureCalls,
                   heap, embedCall, extractCall, gcm, buildCall, packCall, unpackCall>>

(***************************************************************************)
(* Callers of the cryptographic primitives: derive a key, encrypt, then    *)
(* decrypt, or pack what was encrypted and recover the text from it.       *)
(***************************************************************************)
SaltArgs == {None} \cup {Some(s) : s \in Salts}

\* The bytes os.urandom returns when the call draws a salt; nothing is drawn otherwise.
DrawnSalts(salt) == IF salt.some THEN {<<>>} ELSE Salts

Derive(p, salt, k, urandom) ==
    /\ ~deriveCall.called
    /\ ~textCall.called
    /\ deriveCall' = [called |-> TRUE, password |-> p, salt |-> salt, kdf_params |-> k,
                      urandom |-> urandom,
                      res |-> derive_key_from_password(p, salt, k, urandom)]
    /\ UNCHANGED <<otherCalls, heap, embedCall, extractCall, gcm, buildCall, textCall, packCall,
                   unpackCall, rederiveCall, encryptCall, decryptCall, pureCalls>>

\* derive_key_from_password(password, salt=salt, ...) with the salt the first call returned.
Rederive(urandom) ==
    /\ deriveCall.called
    /\ ~rederiveCall.called
    /\ ~encryptCall.called
    /\ rederiveCall' = [called |-> TRUE, urandom |-> urandom,
                        res |-> derive_key_from_password(deriveCall.password,
                                    Some(deriveCall.res.salt), deriveCall.kdf_params, urandom)]
    /\ UNCHANGED <<otherCalls, heap, embedCall, extractCall, gcm, buildCall, textCall, packCall,
                   unpackCall, deriveCall, encryptCall, decryptCall, pureCalls>>

\* The UTF-8 bytes of a tagged message rotated by 1 or by 2, of a message
\* without its end tag, of a tagged message that was not rotated, and bytes
\* that are no message at all (the last two are not UTF-8).
Plaintexts ==
    LET ts == UNION {TextsOfLen(n) : n \in 0..MaxPlain}
    IN  {text_to_bytes(rotate_letters(START_TAG \o t \o END_TAG, sh)) : t \in ts, sh \in {1, 2}}
          \cup {text_to_bytes(rotate_letters(START_TAG \o t, 1)) : t \in ts}
          \cup {text_to_bytes(START_TAG \o t \o END_TAG) : t \in ts}
          \cup {<<>>, <<255>>, <<195>>}

\* encrypt_with_aes_gcm(plaintext, key) with the key the first derivation returned.
Encrypt(plaintext, rnonce) ==
    /\ deriveCall.called
    /\ ~rederiveCall.called
    /\ ~encryptCall.called
    /\ LET e == encrypt_with_aes_gcm(gcm, plaintext, deriveCall.res.key, rnonce) IN
         /\ encryptCall' = [called |-> TRUE, plaintext |-> plaintext,
                            key |-> deriveCall.res.key, urandom |-> rnonce, res |-> e.res]
         /\ gcm' = e.table
    /\ UNCHANGED <<otherCalls, heap, embedCall, extractCall, buildCall, textCall, packCall,
                   unpackCall, deriveCall, rederiveCall, decryptCall, pureCalls>>

\* A byte string with its first byte changed, one byte longer, one byte shorter.
Altered(b) ==
    (IF b = <<>> THEN {} ELSE {[b EXCEPT ![1] = (@ + 1) % 256], SubSeq(b, 1, Len(b) - 1)})
        \cup {Append(b, 0)}

\* The key of another password, of another salt, of other KDF parameters.
OtherKeys ==
    {derive_key_from_password(p, Some(s), k, <<>>).key :
        p \in {deriveCall.password, <<113, 113>>},
        s \in {deriveCall.res.salt, BytesOf(SALT_LENGTH, 91)},
        k \in {deriveCall.kdf_params, [x \in {"length"} |-> 16], [x \in {"length"} |-> 20]}}
      \ {deriveCall.res.key}

\* What a caller can hand to decrypt_with_aes_gcm after an encryption: what
\* encrypt returned with the key it used, or the same with one argument
\* replaced by another value of its kind.
DecryptArgs ==
    IF ~(encryptCall.called /\ Returned(encryptCall.res)) THEN {}
    ELSE LET r == encryptCall.res.val
             same == [ciphertext |-> r.ciphertext, key |-> encryptCall.key, nonce |-> r.nonce,
                      tag |-> r.tag]
         IN  {same}
               \cup {[same EXCEPT !.ciphertext = c] : c \in Altered(r.ciphertext)}
               \cup {[same EXCEPT !.key = k] : k \in OtherKeys}
               \cup {[same EXCEPT !.nonce = n] : n \in Nonces \ {r.nonce}}
               \cup {[same EXCEPT !.tag = [@ EXCEPT ![TAG_LENGTH] = (@ + 1) % 256]]}

Decrypt(a) ==
    /\ encryptCall.called
    /\ Returned(encryptCall.res)
    /\ ~decryptCall.called
    /\ ~packCall.called
    /\ decryptCall' = [called |-> TRUE, args |-> a,
                       res |-> decrypt_with_aes_gcm(gcm, a.ciphertext, a.key, a.nonce, a.tag)]
    /\ UNCHANGED <<otherCalls, heap, embedCall, extractCall, gcm, buildCall, textCall, packCall,
                   unpackCall, deriveCall, rederiveCall, encryptCall, pureCalls>>

\* pack_encrypted_payload(salt, nonce, tag, ciphertext) on what was derived and encrypted.
PackSealed ==
    /\ encryptCall.called
    /\ Returned(encryptCall.res)
    /\ ~decryptCall.called
    /\ ~packCall.called
    /\ LET a == [salt |-> deriveCall.res.salt, nonce |-> encryptCall.res.val.nonce,
                 tag |-> encryptCall.res.val.tag,
                 ciphertext |-> encryptCall.res.val.ciphertext]
       IN  packCall' = [called |-> TRUE, args |-> a,
                        res |-> pack_encrypted_payload(a.salt, a.nonce, a.tag, a.ciphertext)]
    /\ UNCHANGED <<otherCalls, heap, embedCall, extractCall, gcm, buildCall, textCall, unpackCall,
                   cryptoCalls, pureCalls>>

\* extract_text_from_payload on the payload that was packed.
ExtractTextSealed(p2) ==
    /\ encryptCall.called
    /\ packCall.called
    /\ Returned(packCall.res)
    /\ ~textCall.called
    /\ textCall' = [called |-> TRUE, src |-> "sealed", payload |-> packCall.res.val,
                    password |-> p2,
                    res |-> extract_text_from_payload(gcm, packCall.res.val, p2)]
    /\ UNCHANGED <<otherCalls, heap, embedCall, extractCall, gcm, buildCall, packCall, unpackCall,
                   cryptoCalls, pureCalls>>

\* extract_text_from_payload on bytes that come from anywhere (what
\* extract_payload_from_image found in an image that holds no message).
ExtractTextRaw(payload, p2) ==
    /\ ~deriveCall.called
    /\ ~textCall.called
    /\ textCall' = [called |-> TRUE, src |-> "raw", payload |-> payload, password |-> p2,
                    res |-> extract_text_from_payload(gcm, payload, p2)]
    /\ UNCHANGED <<otherCalls, heap, embedCall, extractCall, gcm, buildCall, packCall, unpackCall,
                   cryptoCalls, pureCalls>>

(***************************************************************************)
(* Callers of the steganography engine.                                    *)
(***************************************************************************)
Modes == {"L", "LA", "RGB", "RGBA"}

\* The colour of the test images, (100, 150, 200) with an opaque alpha, or a
\* gradient in which neighbouring channel bytes differ in every bit position.
ChannelValue(fill, x, y, i) ==
    IF fill = "flat" THEN <<100, 150, 200, 255>>[i]
    ELSE (5 + 7 * x + 13 * y + 31 * i + 3 * x * y) % 256

MakeImage(mode, width, height, fill) ==
    [mode |-> mode, width |-> width, height |-> height,
     px |-> [xy \in (0..(width - 1)) \X (0..(height - 1)) |->
                [i \in 1..Bands(mode) |-> ChannelValue(fill, xy[1], xy[2], i)]]]

SmallImages ==
    {MakeImage(m, w, h, f) : m \in Modes, w \in 1..MaxSide, h \in 1..MaxSide,
                             f \in {"flat", "gradient"}}

Payloads == {BytesOf(n, s) : n \in 0..MaxPayload, s \in Seeds}

\* The caller's image is object 1.
Embed(payload, include_alpha, lsb_count) ==
    /\ ~embedCall.called
    /\ ~extractCall.called
    /\ LET r == embed_payload_into_image(heap, 1, payload, include_alpha, lsb_count) IN
         /\ embedCall' = [called |-> TRUE, image |-> 1, before |-> heap[1],
                          payload |-> payload, include_alpha |-> include_alpha,
                          lsb_count |-> lsb_count, res |-> r.res]
         /\ heap' = r.heap
    /\ UNCHANGED <<otherCalls, cryptoCalls, pureCalls,
                   extractCall, gcm, buildCall, textCall, packCall, unpackCall>>

\* extract_payload_from_image on the image embed returned, same flag and lsb_count.
ExtractStego ==
    /\ embedCall.called
    /\ Returned(embedCall.res)
    /\ ~extractCall.called
    /\ extractCall' = [called |-> TRUE, src |-> "stego", image |-> embedCall.res.val,
                       include_alpha |-> embedCall.include_alpha,
                       lsb_count |-> embedCall.lsb_count,
                       res |-> extract_payload_from_image(heap[embedCall.res.val],
                                   embedCall.include_alpha, embedCall.lsb_count)]
    /\ UNCHANGED <<otherCalls, cryptoCalls, pureCalls,
                   heap, embedCall, gcm, buildCall, textCall, packCall, unpackCall>>

\* extract_payload_from_image on an image nothing was embedded into.
ExtractImage(include_alpha, lsb_count) ==
    /\ ~embedCall.called
    /\ ~extractCall.called
    /\ extractCall' = [called |-> TRUE, src |-> "image", image |-> 1,
                       include_alpha |-> include_alpha, lsb_count |-> lsb_count,
                       res |-> extract_payload_from_image(heap[1], include_alpha, lsb_count)]
    /\ UNCHANGED <<otherCalls, cryptoCalls, pureCalls,
                   heap, embedCall, gcm, buildCall, textCall, packCall, unpackCall>>

(***************************************************************************)
(* Callers of the capacity accounting: the capacity of an image is asked   *)
(* for and its channel stream is traversed (as embedding and extraction    *)
(* do), in any order.                                                      *)
(***************************************************************************)
\* The modes of the images Image.open hands over: grey, grey with alpha,
\* colour, colour with alpha, palette and CMYK.
OpenedModes == Modes \cup {"P", "CMYK"}

OpenedImages ==
    {MakeImage(m, w, h, f) : m \in OpenedModes, w \in 1..MaxSide, h \in 1..MaxSide,
                             f \in {"flat", "gradient"}}

\* list(_iter_channel_bytes(image, include_alpha)) on the caller's image.
Traverse(include_alpha) ==
    /\ Len(traverseCalls) < 2
    /\ traverseCalls' = Append(traverseCalls,
                            [include_alpha |-> include_alpha,
                             res |-> _iter_channel_bytes(heap[1], include_alpha)])
    /\ UNCHANGED <<otherCalls, heap, embedCall, extractCall, gcm, buildCall, textCall, packCall, unpackCall,
                   cryptoCalls, capacityCall, rotateCall, unrotateCall, bitsCall, bytesCall>>

Capacity(include_alpha, lsb_count) ==
    /\ ~capacityCall.called
    /\ capacityCall' = [called |-> TRUE, include_alpha |-> include_alpha,
                        lsb_count |-> lsb_count,
                        res |-> get_capacity_bits(heap[1], include_alpha, lsb_count)]
    /\ UNCHANGED <<otherCalls, heap, embedCall, extractCall, gcm, buildCall, textCall, packCall, unpackCall,
                   cryptoCalls, traverseCalls, rotateCall, unrotateCall, bitsCall, bytesCall>>

(***************************************************************************)
(* The encode/decode workflow: build, embed, extract, recover the text.    *)
(***************************************************************************)
\* Images that hold a built payload (one per mode the rebuild tells apart),
\* and the 10x10 image that is too small for any.
BigImages ==
    {MakeImage("L", 25, 26, "gradient"), MakeImage("RGB", 15, 15, "flat"),
     MakeImage("RGBA", 15, 15, "flat"), MakeImage("RGB", 10, 10, "flat")}

\* embed_payload_into_image(image, payload) on the payload that was built,
\* include_alpha and lsb_count left at their defaults.
EmbedBuilt(img) ==
    /\ buildCall.called
    /\ Returned(buildCall.res)
    /\ ~embedCall.called
    /\ ~textCall.called
    /\ LET r == embed_payload_into_image(<<img>>, 1, buildCall.res.val, FALSE, 1) IN
         /\ embedCall' = [called |-> TRUE, image |-> 1, before |-> img,
                          payload |-> buildCall.res.val, include_alpha |-> FALSE,
                          lsb_count |-> 1, res |-> r.res]
         /\ heap' = r.heap
    /\ UNCHANGED <<otherCalls, cryptoCalls, pureCalls,
                   extractCall, gcm, buildCall, textCall, packCall, unpackCall>>

\* extract_text_from_payload on the payload extract_payload_from_image returned.
ExtractTextExtracted(p2) ==
    /\ buildCall.called
    /\ extractCall.called
    /\ Returned(extractCall.res)
    /\ ~textCall.called
    /\ textCall' = [called |-> TRUE, src |-> "image", payload |-> extractCall.res.val,
                    password |-> p2,
                    res |-> extract_text_from_payload(gcm, extractCall.res.val, p2)]
    /\ UNCHANGED <<otherCalls, cryptoCalls, pureCalls,
                   heap, embedCall, extractCall, gcm, buildCall, packCall, unpackCall>>

(***************************************************************************)
(* imagehide/cli.py: the encode command.                                   *)
(***************************************************************************)
\* CapacityError(*args): __init__(self, required_bits, available_bits) takes
\* exactly two arguments; any other number of them is a TypeError.
CapacityError(args) ==
    IF Len(args) = 2
    THEN [err |-> "CapacityError", required_bits |-> args[1], available_bits |-> args[2]]
    ELSE Raise("TypeError")

\* image.save(path, ...): the file holds the image.
save_image(saved, image) == saved \cup {image}

\* objs holds the image load_image returned as object 1, saved the files
\* written so far; the result carries the objects, the AEAD's table and the
\* files after the command.
encode_command(objs, saved, table, message, password, rsalt, rnonce) ==
    LET image == 1
        b == build_payload_from_text(table, message, password, <<>>, rsalt, rnonce)
    IN  IF ~Returned(b.res)
        THEN [res |-> b.res, heap |-> objs, table |-> b.table, files |-> saved]
        ELSE LET payload == b.res.val
                 required_bits == calculate_required_bits_for_payload(Len(payload), 1)
                 available_bits == get_capacity_bits(objs[image], FALSE, 1)
             IN  IF required_bits > available_bits
                 THEN [res |-> CapacityError(<<"Message too large for image">>),
                       heap |-> objs, table |-> b.table, files |-> saved]
                 ELSE LET e == embed_payload_into_image(objs, image, payload, FALSE, 1) IN
                      IF ~Returned(e.res)
                      THEN [res |-> e.res, heap |-> e.heap, table |-> b.table, files |-> saved]
                      ELSE [res |-> Ok(None), heap |-> e.heap, table |-> b.table,
                            files |-> save_image(saved, e.heap[e.res.val])]

\* One run of the command on an image file.
Encode(img, message, password) ==
    /\ ~encodeCall.called
    /\ LET r == encode_command(<<img>>, files, gcm, message, password,
                               BytesOf(SALT_LENGTH, 3), BytesOf(NONCE_LENGTH, 200))
       IN  /\ encodeCall' = [called |-> TRUE, image |-> img, message |-> message,
                             password |-> password, res |-> r.res]
           /\ heap' = r.heap
           /\ gcm' = r.table
           /\ files' = r.files
    /\ UNCHANGED <<embedCall, extractCall, buildCall, textCall, packCall, unpackCall,
                   cryptoCalls, pureCalls, requiredCall, variantCall>>

NoOtherCalls ==
    /\ deriveCall = NotCalled
    /\ rederiveCall = NotCalled
    /\ encryptCall = NotCalled
    /\ decryptCall = NotCalled
    /\ capacityCall = NotCalled
    /\ traverseCalls = <<>>
    /\ rotateCall = NotCalled
    /\ unrotateCall = NotCalled
    /\ bitsCall = NotCalled
    /\ bytesCall = NotCalled
    /\ requiredCall = NotCalled
    /\ encodeCall = NotCalled
    /\ files = {}
    /\ variantCall = NotCalled

InitIdle ==
    /\ heap = <<>>
    /\ embedCall = NotCalled
    /\ extractCall = NotCalled
    /\ gcm = {}
    /\ buildCall = NotCalled
    /\ textCall = NotCalled
    /\ packCall = NotCalled
    /\ unpackCall = NotCalled
    /\ NoOtherCalls

NextPack ==
    \/ \E a \in PackArgs : Pack(a)
    \/ UnpackPacked
    \/ \E p \in RawPayloads : UnpackRaw(p)

SpecPack == InitIdle /\ [][NextPack]_vars

(***************************************************************************)
(* The channel stream and the framed payload, stated from the data model:  *)
(* row-major pixels, canonical channel order, alpha left out unless asked. *)
(***************************************************************************)
UsableChannels(mode, include_alpha) ==
    IF mode \in {"RGBA", "LA"} /\ ~include_alpha THEN Bands(mode) - 1 ELSE Bands(mode)

StreamLength(image, include_alpha) ==
    image.width * image.height * UsableChannels(image.mode, include_alpha)

\* The channel byte at stream position j, counted from 0.
StreamByte(image, include_alpha, j) ==
    LET c == UsableChannels(image.mode, include_alpha)
        k == j \div c
    IN  image.px[<<k % image.width, k \div image.width>>][(j % c) + 1]

\* Bit k (from 0) of the bits read from the low lsb_count bits of the stream.
LowBit(image, include_alpha, lsb_count, k) ==
    BitAt(StreamByte(image, include_alpha, k \div lsb_count), k % lsb_count)

\* Byte n (from 0) recovered from those bits, most significant bit first.
RecoveredByte(image, include_alpha, lsb_count, n) ==
    LET b(j) == LowBit(image, include_alpha, lsb_count, 8 * n + j)
    IN  128 * b(0) + 64 * b(1) + 32 * b(2) + 16 * b(3) + 8 * b(4) + 4 * b(5) + 2 * b(6) + b(7)

RecoveredCount(image, include_alpha, lsb_count) ==
    (StreamLength(image, include_alpha) * lsb_count) \div 8

DeclaredLength(image, include_alpha, lsb_count) ==
    16777216 * RecoveredByte(image, include_alpha, lsb_count, 0)
        + 65536 * RecoveredByte(image, include_alpha, lsb_count, 1)
        + 256 * RecoveredByte(image, include_alpha, lsb_count, 2)
        + RecoveredByte(image, include_alpha, lsb_count, 3)

\* Bit k (from 0) of the 4-byte big-endian length followed by the payload.
FramedBit(payload, k) ==
    LET n == k \div 8
        byte == IF n < 4 THEN (Len(payload) \div (256 ^ (3 - n))) % 256 ELSE payload[n - 3]
    IN  BitAt(byte, 7 - (k % 8))

FramedBits(payload) == 8 * (4 + Len(payload))

\* The payload fits the capacity of the channel stream.
Fits(c) == FramedBits(c.payload) <= StreamLength(c.before, c.include_alpha) * c.lsb_count

\* The channel bytes the framed payload of an image takes: those holding the
\* 4-byte length and the bytes it declares, or the whole stream when the
\* stream holds no length or ends before the declared bytes do.
FramedChannels(image, include_alpha, lsb_count) ==
    LET n == RecoveredCount(image, include_alpha, lsb_count) IN
    IF n < 4 THEN StreamLength(image, include_alpha)
    ELSE LET payload_length == DeclaredLength(image, include_alpha, lsb_count) IN
         IF payload_length > n - 4 THEN StreamLength(image, include_alpha)
         ELSE (8 * (4 + payload_length) + lsb_count - 1) \div lsb_count

\* An image of the same size and mode: "upper" changes the bits above the low
\* lsb_count ones in the framed channel bytes, "tail" flips every bit of the
\* channel bytes after them, "both" does both.
Variant(image, include_alpha, lsb_count, kind) ==
    LET c == UsableChannels(image.mode, include_alpha)
        framed == FramedChannels(image, include_alpha, lsb_count)
        low == 2 ^ lsb_count
        Value(k, i, v) ==
            IF i > c THEN v
            ELSE IF k * c + (i - 1) < framed
            THEN IF kind \in {"upper", "both"}
                 THEN (v % low) + low * (((v \div low) + 1) % (256 \div low))
                 ELSE v
            ELSE IF kind \in {"tail", "both"} THEN 255 - v ELSE v
    IN  [image EXCEPT !.px =
            [xy \in DOMAIN image.px |->
                [i \in 1..Len(image.px[xy]) |->
                    Value(xy[2] * image.width + xy[1], i, image.px[xy][i])]]]

\* extract_payload_from_image, with the arguments of the extraction made, on
\* a variant of the image it read.
ExtractVariant(kind) ==
    /\ extractCall.called
    /\ ~variantCall.called
    /\ LET image == Variant(heap[extractCall.image], extractCall.include_alpha,
                            extractCall.lsb_count, kind)
       IN  variantCall' = [called |-> TRUE, kind |-> kind, image |-> image,
                           res |-> extract_payload_from_image(image,
                                       extractCall.include_alpha, extractCall.lsb_count)]
    /\ UNCHANGED <<heap, embedCall, extractCall, gcm, buildCall, textCall, packCall,
                   unpackCall, cryptoCalls, pureCalls, requiredCall, encodeCall, files>>

InitStego ==
    /\ heap \in {<<img>> : img \in SmallImages}
    /\ embedCall = NotCalled
    /\ extractCall = NotCalled
    /\ gcm = {}
    /\ buildCall = NotCalled
    /\ textCall = NotCalled
    /\ packCall = NotCalled
    /\ unpackCall = NotCalled
    /\ NoOtherCalls

NextStego ==
    \/ \E payload \in Payloads, a \in BOOLEAN, l \in 1..MaxLsb : Embed(payload, a, l)
    \/ ExtractStego
    \/ \E a \in BOOLEAN, l \in 1..MaxLsb : ExtractImage(a, l)
    \/ \E kind \in {"upper", "tail", "both"} : ExtractVariant(kind)

SpecStego == InitStego /\ [][NextStego]_vars

\* C2 (as claimed): for every image, include_alpha, lsb_count and payload that
\* fits the image's capacity, embedding returns an image and extracting from
\* it with the same include_alpha and lsb_count returns exactly the payload.
C2_EmbedExtractRoundTrip ==
    (embedCall.called /\ Fits(embedCall)) =>
        /\ Returned(embedCall.res)
        /\ (extractCall.called /\ extractCall.src = "stego") =>
              (Returned(extractCall.res) /\ extractCall.res.val = embedCall.payload)

\* C3 (as claimed): embed_payload_into_image raises CapacityError exactly when
\* 8*(4+len(payload)) exceeds (channel bytes of the stream) * lsb_count, and
\* the error carries that requirement and that product.
C3_CapacityCheck ==
    embedCall.called =>
        LET required == FramedBits(embedCall.payload)
            available == StreamLength(embedCall.before, embedCall.include_alpha)
                            * embedCall.lsb_count
        IN  /\ (embedCall.res.err = "CapacityError") <=> (required > available)
            /\ embedCall.res.err = "CapacityError" =>
                  /\ embedCall.res.required_bits = required
                  /\ embedCall.res.available_bits = available

\* C4 (as claimed): whenever embed_payload_into_image returns an image, every
\* one of the 8*(4+len(payload)) bits of the length-prefixed payload is in the
\* low bits of the returned image's channel stream.
C4_NoLossyEmbedding ==
    (embedCall.called /\ Returned(embedCall.res)) =>
        LET out == heap[embedCall.res.val] IN
        \A k \in 0..(FramedBits(embedCall.payload) - 1) :
            /\ k \div embedCall.lsb_count < StreamLength(out, embedCall.include_alpha)
            /\ LowBit(out, embedCall.include_alpha, embedCall.lsb_count, k)
                  = FramedBit(embedCall.payload, k)

\* C6: embed_payload_into_image leaves its input image as it was (pixels, size
\* and mode), whether it returns or raises, and what it returns is another
\* image object.
C6_InputNotMutated ==
    embedCall.called =>
        /\ heap[embedCall.image] = embedCall.before
        /\ Returned(embedCall.res) =>
              /\ embedCall.res.val # embedCall.image
              /\ embedCall.res.val \in DOMAIN heap
        /\ ~Returned(embedCall.res) => heap = <<embedCall.before>>

C6_Witness ==
    /\ embedCall.called
    /\ Returned(embedCall.res)
    /\ heap[embedCall.res.val].px # embedCall.before.px
    /\ heap[embedCall.image] = embedCall.before

\* C8: extract_payload_from_image reads the low lsb_count bits of every
\* channel byte in stream order (lowest bit first), takes the first 4 bytes
\* recovered as a big-endian length L and returns exactly the next L bytes; it
\* fails with FormatError, returning no bytes, if fewer than 4 bytes are
\* recovered or L exceeds the bytes recovered after the header.
C8_ExtractReadsFramedPayload ==
    extractCall.called =>
        LET image == heap[extractCall.image]
            a == extractCall.include_alpha
            l == extractCall.lsb_count
            n == RecoveredCount(image, a, l)
        IN  IF n < 4 \/ DeclaredLength(image, a, l) > n - 4
            THEN extractCall.res = [err |-> "FormatError"]
            ELSE /\ Returned(extractCall.res)
                 /\ extractCall.res.val =
                        [i \in 1..DeclaredLength(image, a, l) |-> RecoveredByte(image, a, l, 3 + i)]

C8_Witness ==
    /\ extractCall.called
    /\ Returned(extractCall.res)
    /\ Len(extractCall.res.val) = MaxPayload
    /\ extractCall.lsb_count > 1

C8_WitnessFormatError ==
    /\ extractCall.called
    /\ extractCall.res.err = "FormatError"
    /\ RecoveredCount(heap[extractCall.image], extractCall.include_alpha,
                      extractCall.lsb_count) >= 4

\* C12 (as claimed): called on an RGBA image with include_alpha = false and a
\* payload that fits, embed_payload_into_image returns an image in which the
\* alpha value of every pixel is the alpha value of the original pixel.
C12_AlphaPreserved ==
    (embedCall.called /\ embedCall.before.mode = "RGBA" /\ ~embedCall.include_alpha
        /\ Fits(embedCall)) =>
        /\ Returned(embedCall.res)
        /\ \A xy \in DOMAIN embedCall.before.px :
              heap[embedCall.res.val].px[xy][4] = embedCall.before.px[xy][4]

\* C20: in the image embed_payload_into_image returns, with B the bits of the
\* 4-byte header followed by the payload, the channel byte at stream position
\* j with j*lsb_count < len(B) keeps its upper 8-lsb_count bits and has bit i
\* of its low bits equal to B[j*lsb_count + i] for every such bit of B; every
\* channel byte at a position with j*lsb_count >= len(B) is the original one.
C20_BitPlacement ==
    (embedCall.called /\ Returned(embedCall.res)) =>
        LET before == embedCall.before
            out == heap[embedCall.res.val]
            a == embedCall.include_alpha
            l == embedCall.lsb_count
            B == FramedBits(embedCall.payload)
        IN  /\ StreamLength(out, a) = StreamLength(before, a)
            /\ \A j \in 0..(StreamLength(before, a) - 1) :
                  LET o == StreamByte(before, a, j)
                      m == StreamByte(out, a, j)
                  IN  IF j * l < B
                      THEN /\ m \div (2 ^ l) = o \div (2 ^ l)
                           /\ \A i \in 0..(l - 1) :
                                 j * l + i < B => BitAt(m, i) = FramedBit(embedCall.payload, j * l + i)
                      ELSE m = o

\* Groups of three bits, the last one incomplete, in an image whose channel
\* bytes differ from one another, with channel bytes left after the payload.
C20_Witness ==
    /\ embedCall.called
    /\ Returned(embedCall.res)
    /\ embedCall.lsb_count = 3
    /\ Len(embedCall.payload) = MaxPayload
    /\ embedCall.before.mode = "RGB"
    /\ heap[embedCall.res.val].px # embedCall.before.px
    /\ FramedBits(embedCall.payload) + 8 < StreamLength(embedCall.before, FALSE) * 3
    /\ StreamByte(embedCall.before, FALSE, 0) # StreamByte(embedCall.before, FALSE, 1)

NextCapacity ==
    \/ \E a \in BOOLEAN : Traverse(a)
    \/ \E a \in BOOLEAN, l \in 1..MaxLsb : Capacity(a, l)

InitCapacity ==
    /\ heap \in {<<img>> : img \in OpenedImages}
    /\ embedCall = NotCalled
    /\ extractCall = NotCalled
    /\ gcm = {}
    /\ buildCall = NotCalled
    /\ textCall = NotCalled
    /\ packCall = NotCalled
    /\ unpackCall = NotCalled
    /\ NoOtherCalls

SpecCapacity == InitCapacity /\ [][NextCapacity]_vars

\* C13 (as claimed): for every image mode and include_alpha flag, a traversal
\* of _iter_channel_bytes yields width * height * get_num_channels(image,
\* include_alpha) channel bytes, get_capacity_bits is that number times
\* lsb_count, and two traversals with the same flag yield the same number.
C13_StreamLength ==
    LET image == heap[1] IN
    /\ \A i \in DOMAIN traverseCalls :
          Len(traverseCalls[i].res)
              = image.width * image.height
                    * get_num_channels(image, traverseCalls[i].include_alpha)
    /\ \A i, j \in DOMAIN traverseCalls :
          traverseCalls[i].include_alpha = traverseCalls[j].include_alpha
              => Len(traverseCalls[i].res) = Len(traverseCalls[j].res)
    /\ capacityCall.called =>
          \A i \in DOMAIN traverseCalls :
              traverseCalls[i].include_alpha = capacityCall.include_alpha
                  => capacityCall.res = Len(traverseCalls[i].res) * capacityCall.lsb_count

\* The same, for the modes get_num_channels names and for LA.
StreamLengthNamedModes ==
    heap[1].mode # "P" => C13_StreamLength

NextText ==
    \/ \E t \in Texts, p \in Passwords, k \in KdfParams, rs \in Salts, rn \in Nonces :
          Build(t, p, k, rs, rn)
    \/ \E p2 \in Passwords : ExtractTextBuilt(p2)

SpecText == InitIdle /\ [][NextText]_vars

NextE2E ==
    \/ \E t \in Texts, p \in Passwords :
          Build(t, p, <<>>, BytesOf(SALT_LENGTH, 3), BytesOf(NONCE_LENGTH, 200))
    \/ \E img \in BigImages : EmbedBuilt(img)
    \/ ExtractStego
    \/ \E p2 \in Passwords : ExtractTextExtracted(p2)

SpecE2E == InitIdle /\ [][NextE2E]_vars

\* C1 (as claimed): for every text, every non-empty password and every image
\* with enough capacity, building the payload, embedding it, extracting it and
\* recovering the text with the same password returns exactly the text.
C1_EndToEndRoundTrip ==
    (buildCall.called /\ embedCall.called /\ Fits(embedCall)) =>
        /\ Returned(embedCall.res)
        /\ extractCall.called =>
              (Returned(extractCall.res) /\ extractCall.res.val = buildCall.res.val)
        /\ (textCall.called /\ textCall.password = buildCall.password) =>
              (Returned(textCall.res) /\ textCall.res.val = buildCall.text)

\* The same, for the images whose mode has no alpha channel.
EndToEndRoundTripNoAlpha ==
    (buildCall.called /\ embedCall.called /\ Fits(embedCall)
        /\ embedCall.before.mode \in {"L", "RGB"}) =>
        /\ Returned(embedCall.res)
        /\ extractCall.called =>
              (Returned(extractCall.res) /\ extractCall.res.val = buildCall.res.val)
        /\ (textCall.called /\ textCall.password = buildCall.password) =>
              (Returned(textCall.res) /\ textCall.res.val = buildCall.text)

\* C5: for every text and passwords p, p2 with p2 # p, recovering the text of
\* the payload built with p under p2 fails with DecryptionError and returns no
\* text (a tag verifies only under the key that produced it).
C5_WrongPasswordFails ==
    (textCall.called /\ textCall.src = "built" /\ textCall.password # buildCall.password)
      => textCall.res = [err |-> "DecryptionError"]

\* Two passwords of the same length, so that the rotation alone tells nothing.
C5_Witness ==
    /\ textCall.called
    /\ textCall.src = "built"
    /\ textCall.password # buildCall.password
    /\ Len(textCall.password) = Len(buildCall.password)
    /\ Len(buildCall.text) = MaxText
    /\ textCall.res.err = "DecryptionError"

\* C7 (as claimed): what build_payload_from_text returns starts with the
\* 4-byte big-endian length of the rest, and the rest is salt(16) || nonce(12)
\* || tag(16) || ciphertext; the whole is at least 48 bytes long.
C7_BuildReturnsFramedPayload ==
    (buildCall.called /\ Returned(buildCall.res)) =>
        LET v == buildCall.res.val IN
        /\ Len(v) >= 48
        /\ struct_unpack_I(Slice(v, 0, 4)) = Len(v) - 4
        /\ Slice(v, 4, 20) = buildCall.salt
        /\ Slice(v, 20, 32) = buildCall.nonce

\* C7 (amended): build_payload_from_text returns the payload without a length
\* header, salt(16) || nonce(12) || tag(16) || ciphertext with the ciphertext
\* as long as the UTF-8 bytes of the rotated tagged text (44 bytes at least);
\* the 4-byte big-endian header is written by embed_payload_into_image, and
\* the length it declares in the image is the length of that payload.
C7_BuildReturnsPayloadEmbedFrames ==
    (buildCall.called /\ Returned(buildCall.res)) =>
        LET v == buildCall.res.val
            plain == text_to_bytes(rotate_letters(START_TAG \o buildCall.text \o END_TAG,
                                                  Len(buildCall.password)))
        IN  /\ Len(v) = 44 + Len(plain)
            /\ Slice(v, 0, 16) = buildCall.salt
            /\ Slice(v, 16, 28) = buildCall.nonce
            /\ \E e \in gcm : /\ e.key.salt = buildCall.salt
                              /\ e.nonce = buildCall.nonce
                              /\ e.tag = Slice(v, 28, 44)
                              /\ e.ciphertext = Slice(v, 44, Len(v))
                              /\ Len(e.ciphertext) = Len(plain)
            /\ (embedCall.called /\ Returned(embedCall.res)) =>
                  /\ embedCall.payload = v
                  /\ DeclaredLength(heap[embedCall.res.val], FALSE, 1) = Len(v)
                  /\ 4 + DeclaredLength(heap[embedCall.res.val], FALSE, 1) >= 48

C7_Witness ==
    /\ buildCall.called
    /\ Returned(buildCall.res)
    /\ Len(buildCall.text) = MaxText
    /\ embedCall.called
    /\ Returned(embedCall.res)
    /\ embedCall.before.mode = "RGB"

\* C9 (as claimed): unpack_encrypted_payload fails with FormatError on every
\* payload shorter than 44 bytes and returns the four slices [0:16], [16:28],
\* [28:44], [44:end] on every payload of 44 bytes or more.
C9_UnpackShortIsFormatError ==
    unpackCall.called =>
        IF Len(unpackCall.payload) < 44
        THEN unpackCall.res.err = "FormatError"
        ELSE /\ Returned(unpackCall.res)
             /\ unpackCall.res.val.salt = Slice(unpackCall.payload, 0, 16)
             /\ unpackCall.res.val.nonce = Slice(unpackCall.payload, 16, 28)
             /\ unpackCall.res.val.tag = Slice(unpackCall.payload, 28, 44)
             /\ unpackCall.res.val.ciphertext =
                    Slice(unpackCall.payload, 44, Len(unpackCall.payload))

\* C10: for a salt of 16 bytes, a nonce of 12 bytes, a tag of 16 bytes and any
\* ciphertext (the empty one included), pack returns and unpack of what it
\* returned gives back exactly (salt, nonce, tag, ciphertext).
C10_PackUnpackRoundTrip ==
    /\ (packCall.called /\ Len(packCall.args.salt) = 16 /\ Len(packCall.args.nonce) = 12
            /\ Len(packCall.args.tag) = 16)
          => Returned(packCall.res)
    /\ (unpackCall.called /\ unpackCall.src = "packed")
          => /\ Returned(unpackCall.res)
             /\ unpackCall.res.val = packCall.args

C10_Witness ==
    /\ unpackCall.called
    /\ unpackCall.src = "packed"
    /\ Returned(unpackCall.res)
    /\ packCall.args.ciphertext = <<>>

NextSeal ==
    \/ \E p \in Passwords, salt \in SaltArgs, k \in KdfParams :
          \E urandom \in DrawnSalts(salt) : Derive(p, salt, k, urandom)
    \/ \E urandom \in Salts : Rederive(urandom)
    \/ \E plaintext \in Plaintexts, rnonce \in Nonces : Encrypt(plaintext, rnonce)
    \/ \E a \in DecryptArgs : Decrypt(a)
    \/ PackSealed
    \/ \E p2 \in Passwords : ExtractTextSealed(p2)
    \/ \E payload \in RawPayloads, p2 \in Passwords : ExtractTextRaw(payload, p2)

SpecSeal == InitIdle /\ [][NextSeal]_vars

\* C11 (as claimed): for every byte sequence payload and password,
\* extract_text_from_payload either returns a text or fails with FormatError
\* or DecryptionError; no other error kind reaches the caller.
C11_ClosedErrorTaxonomy ==
    textCall.called => textCall.res.err \in {"none", "FormatError", "DecryptionError"}

\* The text the tags are looked for in: the plaintext that was encrypted,
\* decoded and rotated back by the length of the password.
Derotated(plaintext, password) ==
    rotate_letters(bytes_to_text(plaintext).val, 0 - Len(password))

HasTags(d) ==
    /\ Len(d) >= Len(START_TAG) + Len(END_TAG)
    /\ \A i \in 1..Len(START_TAG) : d[i] = START_TAG[i]
    /\ \A i \in 1..Len(END_TAG) : d[Len(d) - Len(END_TAG) + i] = END_TAG[i]

\* The payload handed to extract_text_from_payload decrypts under the
\* password and the plaintext is UTF-8.
Decodes ==
    /\ textCall.called
    /\ textCall.src = "sealed"
    /\ textCall.password = deriveCall.password
    /\ encryptCall.key = PBKDF2HMAC(text_to_bytes(textCall.password), packCall.args.salt,
                                    KDF_ITERATIONS, KDF_LENGTH)
    /\ Returned(bytes_to_text(encryptCall.plaintext))

\* C17: extract_text_from_payload returns a text only if the decrypted,
\* UTF-8-decoded text rotated by -len(password) starts with START_TAG and ends
\* with END_TAG, and then returns exactly the characters between the two
\* tags; when that text lacks a tag the call fails with FormatError and
\* returns nothing.
C17_TagsRequired ==
    /\ (textCall.called /\ Returned(textCall.res)) => Decodes
    /\ Decodes =>
          LET d == Derotated(encryptCall.plaintext, textCall.password) IN
          IF HasTags(d)
          THEN textCall.res = Ok([i \in 1..(Len(d) - Len(START_TAG) - Len(END_TAG)) |->
                                     d[Len(START_TAG) + i]])
          ELSE textCall.res = [err |-> "FormatError"]

\* A text of MaxPlain characters came back from between the tags.
C17_Witness ==
    /\ Decodes
    /\ Returned(textCall.res)
    /\ Len(textCall.res.val) = MaxPlain
    /\ Len(textCall.password) > 26

\* The start tag is there and the end tag is not: FormatError.
C17_WitnessFormatError ==
    /\ Decodes
    /\ textCall.res.err = "FormatError"
    /\ startswith(Derotated(encryptCall.plaintext, textCall.password), START_TAG)

\* C18: derive_key_from_password returns the key PBKDF2 gives for (password,
\* salt, kdf_params) and the salt it used: the supplied salt, or the 16 bytes
\* it drew when none was supplied; a second call with the returned salt and
\* the same password and parameters returns the same key and salt, whatever
\* the random source holds by then.
C18_KeyDerivationDeterministic ==
    /\ deriveCall.called =>
          /\ deriveCall.salt.some => deriveCall.res.salt = deriveCall.salt.v
          /\ ~deriveCall.salt.some =>
                (deriveCall.res.salt = deriveCall.urandom /\ Len(deriveCall.res.salt) = 16)
          /\ deriveCall.res.key.salt = deriveCall.res.salt
    /\ rederiveCall.called =>
          /\ rederiveCall.res.key = deriveCall.res.key
          /\ rederiveCall.res.salt = deriveCall.res.salt

\* The first call drew its salt, and the random source has moved on since.
C18_Witness ==
    /\ rederiveCall.called
    /\ ~deriveCall.salt.some
    /\ rederiveCall.urandom # deriveCall.urandom
    /\ DOMAIN deriveCall.kdf_params # {}

\* The arguments of the decryption are what the encryption returned, with its key.
SameAsEncrypted ==
    decryptCall.args = [ciphertext |-> encryptCall.res.val.ciphertext, key |-> encryptCall.key,
                        nonce |-> encryptCall.res.val.nonce, tag |-> encryptCall.res.val.tag]

EncryptedLengths ==
    (encryptCall.called /\ Returned(encryptCall.res)) =>
        /\ Len(encryptCall.res.val.ciphertext) = Len(encryptCall.plaintext)
        /\ Len(encryptCall.res.val.nonce) = 12
        /\ Len(encryptCall.res.val.tag) = 16

\* C19 (as claimed): what encrypt_with_aes_gcm returns decrypts to the
\* plaintext under the same key, nonce and tag, the ciphertext is as long as
\* the plaintext, the nonce 12 and the tag 16 bytes long; decrypting with a
\* different key, nonce, tag or ciphertext fails with DecryptionError.
C19_EncryptDecryptRoundTrip ==
    /\ EncryptedLengths
    /\ decryptCall.called =>
          IF SameAsEncrypted THEN decryptCall.res = Ok(encryptCall.plaintext)
          ELSE decryptCall.res = [err |-> "DecryptionError"]

\* C19 (amended): the same for keys of 16, 24 or 32 bytes; a different key of
\* another length is refused with ValueError before any tag is verified, as
\* encrypt_with_aes_gcm refuses it.
C19_RoundTripValidKeys ==
    /\ EncryptedLengths
    /\ encryptCall.called => (Returned(encryptCall.res) <=> encryptCall.key.length \in {16, 24, 32})
    /\ encryptCall.called /\ ~Returned(encryptCall.res) => encryptCall.res = [err |-> "ValueError"]
    /\ decryptCall.called =>
          IF SameAsEncrypted THEN decryptCall.res = Ok(encryptCall.plaintext)
          ELSE IF decryptCall.args.key.length \in {16, 24, 32}
          THEN decryptCall.res = [err |-> "DecryptionError"]
          ELSE decryptCall.res = [err |-> "ValueError"]

\* A ciphertext altered in its first byte, same length, is refused.
C19_Witness ==
    /\ decryptCall.called
    /\ decryptCall.args.ciphertext # encryptCall.res.val.ciphertext
    /\ Len(decryptCall.args.ciphertext) = Len(encryptCall.res.val.ciphertext)
    /\ decryptCall.args.key = encryptCall.key
    /\ decryptCall.res.err = "DecryptionError"

\* The round trip itself, on a plaintext that is not UTF-8.
C19_WitnessRoundTrip ==
    /\ decryptCall.called
    /\ SameAsEncrypted
    /\ encryptCall.plaintext = <<255>>
    /\ decryptCall.res = Ok(<<255>>)

NextRotate ==
    \/ \E text \in RotateTexts, shift \in Shifts : Rotate(text, shift)
    \/ Unrotate

SpecRotate == InitIdle /\ [][NextRotate]_vars

\* C14: for every text t and every integer shift s (positive, zero or
\* negative, of any magnitude), rotate_letters(rotate_letters(t, s), -s) = t.
C14_RotationIdentity ==
    unrotateCall.called => unrotateCall.res = rotateCall.text

\* A negative shift of more than a turn took 'a' below the alphabet and back.
C14_Witness ==
    /\ unrotateCall.called
    /\ rotateCall.shift < 0 - 26
    /\ Len(rotateCall.text) = MaxRotate
    /\ rotateCall.text[1] = ORD_a
    /\ rotateCall.res # rotateCall.text
    /\ unrotateCall.res = rotateCall.text

IsLower(c) == 97 <= c /\ c <= 122

IsUpper(c) == 65 <= c /\ c <= 90

\* C15: rotate_letters returns a text as long as its input in which every
\* character that is not an ASCII letter is unchanged and every ASCII letter
\* is the letter of the same case whose index is (index + shift) mod 26; the
\* result is the one for the shift reduced mod 26.
C15_RotateLetters ==
    rotateCall.called =>
        LET t == rotateCall.text
            r == rotateCall.res
            s == rotateCall.shift
        IN  /\ Len(r) = Len(t)
            /\ \A i \in 1..Len(t) :
                  /\ IsLower(t[i]) => (IsLower(r[i]) /\ (r[i] - t[i] - s) % 26 = 0)
                  /\ IsUpper(t[i]) => (IsUpper(r[i]) /\ (r[i] - t[i] - s) % 26 = 0)
                  /\ ~(IsLower(t[i]) \/ IsUpper(t[i])) => r[i] = t[i]
            /\ r = rotate_letters(t, s % 26)

\* An accented letter next to a letter that wraps, under a shift of many turns.
C15_Witness ==
    /\ rotateCall.called
    /\ rotateCall.shift = 1000
    /\ rotateCall.text = <<233, 122>>
    /\ rotateCall.res = <<233, 108>>

NextCodec ==
    \/ \E data \in ByteStrings : ToBits(data)
    \/ FromBits

SpecCodec == InitIdle /\ [][NextCodec]_vars

\* C16: for every byte sequence b (the empty one included), bytes_to_bits(b)
\* has exactly 8*len(b) bits, the bits of each byte most significant first,
\* and bits_to_bytes of those bits is b.
C16_BitCodecRoundTrip ==
    /\ bitsCall.called =>
          /\ Len(bitsCall.res) = 8 * Len(bitsCall.data)
          /\ \A k \in 1..Len(bitsCall.res) : bitsCall.res[k] \in {0, 1}
          /\ \A n \in 1..Len(bitsCall.data) :
                LET b(j) == bitsCall.res[8 * (n - 1) + j]
                IN  bitsCall.data[n] = 128 * b(1) + 64 * b(2) + 32 * b(3) + 16 * b(4)
                                         + 8 * b(5) + 4 * b(6) + 2 * b(7) + b(8)
    /\ bytesCall.called => bytesCall.res = bitsCall.data

C16_Witness ==
    /\ bytesCall.called
    /\ Len(bitsCall.data) = MaxBytes
    /\ bitsCall.data[1] = 1
    /\ bitsCall.data[2] = 128
    /\ bytesCall.res = bitsCall.data

\* The empty byte sequence makes the round trip too.
C16_WitnessEmpty ==
    /\ bytesCall.called
    /\ bitsCall.data = <<>>
    /\ bitsCall.res = <<>>
    /\ bytesCall.res = <<>>

NextBits == \E bits \in BitLists : FromBitsRaw(bits)

SpecBits == InitIdle /\ [][NextBits]_vars

\* C21: bits_to_bytes on a bit sequence of length n returns exactly
\* floor(n/8) bytes, byte k being bits 8k-7..8k packed most
\* significant first; the trailing n mod 8 bits are in no byte.
C21_TrailingBitsDropped ==
    bytesCall.called =>
        /\ Len(bytesCall.res) = Len(bytesCall.bits) \div 8
        /\ \A k \in 1..Len(bytesCall.res) :
              LET b(j) == bytesCall.bits[8 * (k - 1) + j]
              IN  bytesCall.res[k] = 128 * b(1) + 64 * b(2) + 32 * b(3) + 16 * b(4)
                                       + 8 * b(5) + 4 * b(6) + 2 * b(7) + b(8)

\* Seven trailing bits, ones among them, after whole bytes.
C21_Witness ==
    /\ bytesCall.called
    /\ Len(bytesCall.bits) = 8 * MaxBytes + 7
    /\ bytesCall.bits[8 * MaxBytes + 1] = 1
    /\ Len(bytesCall.res) = MaxBytes

NextRequired ==
    \E n \in 0..MaxLength, l \in 1..MaxLsb : RequiredBits(n, l)

SpecRequired == InitIdle /\ [][NextRequired]_vars

\* C22 (as claimed): calculate_required_bits_for_payload returns
\* payload_length_bytes * 8 when lsb_count = 1 and payload_length_bytes * 8 *
\* lsb_count when more than one bit per channel byte is used.
C22_RequiredBitsScaled ==
    requiredCall.called =>
        requiredCall.res = requiredCall.payload_length_bytes * 8 * requiredCall.lsb_count

\* C22 (amended): calculate_required_bits_for_payload returns
\* payload_length_bytes * 8 for every lsb_count; lsb_count does not enter the
\* result (it multiplies the capacity the requirement is compared with).
C22_RequiredBitsUnscaled ==
    requiredCall.called => requiredCall.res = requiredCall.payload_length_bytes * 8

C22_Witness ==
    /\ requiredCall.called
    /\ requiredCall.lsb_count = MaxLsb
    /\ requiredCall.payload_length_bytes = MaxLength
    /\ requiredCall.res = 8 * MaxLength

\* The password the command is run with.
CliPasswords == {<<112>>}

NextCli == \E img \in BigImages, t \in Texts, p \in CliPasswords : Encode(img, t, p)

SpecCli == InitIdle /\ [][NextCli]_vars

\* The bits the payload built from a message takes: salt, nonce, tag and a
\* ciphertext as long as the UTF-8 bytes of the tagged message.
BuiltBits(message) == 8 * (44 + Len(text_to_bytes(START_TAG \o message \o END_TAG)))

\* C23 (as claimed): when the built payload requires more bits than
\* get_capacity_bits(image), encode_command fails with a CapacityError that
\* carries the required and the available bit counts, and writes no image.
C23_EncodeCapacityError ==
    (encodeCall.called
        /\ BuiltBits(encodeCall.message) > get_capacity_bits(encodeCall.image, FALSE, 1)) =>
        /\ encodeCall.res.err = "CapacityError"
        /\ encodeCall.res.required_bits = BuiltBits(encodeCall.message)
        /\ encodeCall.res.available_bits = get_capacity_bits(encodeCall.image, FALSE, 1)
        /\ files = {}

\* What the command does in that case: no image is written, and the error is TypeError.
EncodeRefusesWithTypeError ==
    (encodeCall.called
        /\ BuiltBits(encodeCall.message) > get_capacity_bits(encodeCall.image, FALSE, 1)) =>
        /\ encodeCall.res = [err |-> "TypeError"]
        /\ files = {}

\* The parameters under which the key is the one the defaults give.
DefaultKdf(kdf_params) ==
    /\ ("iterations" \in DOMAIN kdf_params) => kdf_params["iterations"] = KDF_ITERATIONS
    /\ ("length" \in DOMAIN kdf_params) => kdf_params["length"] = KDF_LENGTH

\* C24: extract_text_from_payload re-derives the key with the default
\* parameters and the payload's salt, so with the right password it recovers
\* the text of build_payload_from_text(t, p, kdf_params) exactly when
\* kdf_params gives the default key; for parameters that give another key it
\* fails with DecryptionError and returns no text.
C24_KdfSymmetry ==
    (textCall.called /\ textCall.src = "built" /\ textCall.password = buildCall.password) =>
        IF DefaultKdf(buildCall.kdf_params)
        THEN textCall.res = Ok(buildCall.text)
        ELSE textCall.res = [err |-> "DecryptionError"]

\* Built with fewer iterations, read back with the password it was built with.
C24_Witness ==
    /\ textCall.called
    /\ textCall.src = "built"
    /\ textCall.password = buildCall.password
    /\ "iterations" \in DOMAIN buildCall.kdf_params
    /\ buildCall.kdf_params["iterations"] # KDF_ITERATIONS
    /\ Len(buildCall.text) = MaxText
    /\ textCall.res = [err |-> "DecryptionError"]

\* Built with the defaults spelled out: the text comes back.
C24_WitnessDefaults ==
    /\ textCall.called
    /\ textCall.src = "built"
    /\ buildCall.kdf_params # <<>>
    /\ Len(buildCall.text) = MaxText
    /\ textCall.res = Ok(buildCall.text)

\* Two images of the same size and mode whose channel streams agree on the low
\* lsb_count bits of the framed channel bytes of the first.
AgreeOnFramedRegion(a, b, include_alpha, lsb_count) ==
    /\ a.mode = b.mode
    /\ a.width = b.width
    /\ a.height = b.height
    /\ \A j \in 0..(FramedChannels(a, include_alpha, lsb_count) - 1) :
          StreamByte(a, include_alpha, j) % (2 ^ lsb_count)
              = StreamByte(b, include_alpha, j) % (2 ^ lsb_count)

\* C25: extraction depends only on the framed region: two images of the same
\* size and mode whose channel streams agree on the low lsb_count bits of the
\* first ceil(8*(4+L)/lsb_count) channel bytes, L being the length the first
\* 32 recovered bits declare, give the same bytes or the same FormatError,
\* whatever the upper bits and the channel bytes after the region are.
C25_FramedRegionOnly ==
    (extractCall.called /\ variantCall.called
        /\ AgreeOnFramedRegion(heap[extractCall.image], variantCall.image,
                               extractCall.include_alpha, extractCall.lsb_count)) =>
        variantCall.res = extractCall.res

\* A payload of full length read back from an image that differs from the
\* stego image in the upper bits of the region and in the bytes after it.
C25_Witness ==
    /\ extractCall.called
    /\ variantCall.called
    /\ variantCall.kind = "both"
    /\ LET a == heap[extractCall.image]
           framed == FramedChannels(a, extractCall.include_alpha, extractCall.lsb_count)
       IN  /\ AgreeOnFramedRegion(a, variantCall.image, extractCall.include_alpha,
                                  extractCall.lsb_count)
           /\ framed < StreamLength(a, extractCall.include_alpha)
           /\ StreamByte(a, extractCall.include_alpha, 0)
                 # StreamByte(variantCall.image, extractCall.include_alpha, 0)
           /\ StreamByte(a, extractCall.include_alpha, framed)
                 # StreamByte(variantCall.image, extractCall.include_alpha, framed)
    /\ Returned(variantCall.res)
    /\ Len(variantCall.res.val) = MaxPayload
    /\ variantCall.res = extractCall.res

\* The same FormatError from both images.
C25_WitnessFormatError ==
    /\ extractCall.called
    /\ variantCall.called
    /\ variantCall.image # heap[extractCall.image]
    /\ variantCall.res = [err |-> "FormatError"]
    /\ extractCall.res = [err |-> "FormatError"]

====
